---- MODULE Spec2Model ----
(***************************************************************************)
(* KMZ60 quadrature tachometer (src/Sensor/Sensor.c, src/main.c).          *)
(*                                                                         *)
(* Two edge interrupt handlers (GPIOP0_IRQHandler, GPIOP1_IRQHandler)      *)
(* share HandleEdge and write the volatile EdgeCapture variables; the main *)
(* loop calls Sensor_GetSpeed, the getters and Sensor_ResetDistance.       *)
(*                                                                         *)
(* Numbers.  TLC integers are 32 bit signed, the timer is 32 bit unsigned, *)
(* so time is kept in quanta of TimerQuantum ticks: every timer read of    *)
(* the model falls on a multiple of the quantum.  With the quantum 16 the  *)
(* tick constants of the source (1200, 12000000, 60000000, 2^32,           *)
(* 120000000) are all exact multiples, so a comparison of quanta is the    *)
(* source's comparison of ticks.  Floats are fixed point: speed in metres  *)
(* per hour (km/h * 1000), RPM in 1/1000 rpm, distance in micrometres;     *)
(* a division truncates where the float would round.                       *)
(***************************************************************************)
EXTENDS Integers, Sequences, FiniteSets, TLC

VARIABLES
    timer,      \* TIMER2 value (counts down), in quanta
    intMaster,  \* PRIMASK clear: IntMasterEnable() / IntMasterDisable()
    irqEnabled, \* INT_GPIOP0 / INT_GPIOP1 enabled in the NVIC
    init_pc,    \* position of Sensor_Init
    gs_pc,      \* position of Sensor_GetSpeed
    vol,        \* the volatile variables shared with the ISRs
    est,        \* the non-volatile state of the estimator
    loc,        \* locals of the running Sensor_GetSpeed call, the frames of
                \* the edge handlers in progress, buttonPressed of main.c
    last,       \* the operation that completed last, with what it saw
    hist,       \* observation: samples pushed since each filter was cleared
    idle_q,     \* observation: quanta since the last accepted edge (capped)
    budget      \* ticks, edge events and calls used so far

vars == <<timer, intMaster, irqEnabled, init_pc, gs_pc, vol, est, loc, last,
          hist, idle_q, budget>>

(***************************************************************************)
(* Bounds of the exploration.                                              *)
(***************************************************************************)
TimerQuantum == 16
\* The sequential specification Spec.
MaxTicks == 4
MaxEdgeEvents == 2
MaxCalls == 3
MaxResets == 1
\* The preemptive specification SpecPreempt.
PreemptTicks == 2
PreemptEdgeEvents == 2
PreemptCalls == 1
\* The fast rotation specification SpecBurst.
BurstTicks == 2
BurstEdgeEvents == 1
BurstCalls == 2
\* The edge handler specification SpecEdge.
EdgeTicks == 2
EdgeEvents == 3
\* Lengths of the rotations the environment performs.
SlowBurst == 6
ClampBurst == 101
\* The specification SpecElapsed, around the wrap of the timer.
ElapsedTicks == 2
ElapsedEdgeEvents == 2
ElapsedCalls == 2
\* A reference time this many quanta above the wrap.
WrapOffset == 5
\* The specification SpecNested.
NestedTicks == 2
NestedEdgeEvents == 2
NestedCalls == 1
\* The specification SpecReset.
ResetTicks == 2
ResetEdgeEvents == 2
ResetCalls == 2
ResetPresses == 1
\* The specification SpecStartup: runs of handler calls that find the pins
\* unchanged, GlitchRunLength calls of at least HandlerQuanta quanta each.
StartupRuns == 2
StartupEdgeEvents == 2
GlitchRunLength == 80
HandlerQuanta == 1
\* The specification SpecStandstill.
StandstillEvents == 3
\* The specification SpecWindow.
WindowTicks == 3
WindowEdgeEvents == 2
WindowCalls == 2
MidBurst == 740
FastBurst == 800

(***************************************************************************)
(* Program constants.                                                      *)
(***************************************************************************)
TIMER_FREQ == 120000000
EDGES_PER_ROTATION == 4
STOPPED_TIMEOUT == 60000000
MIN_PERIOD == 1200
MIN_UPDATE_INTERVAL == 12000000
SPEED_FILTER_SIZE == 3
RPM_FILTER_SIZE == 3
DIRECTION_THRESHOLD == 5
DIRECTION_CLAMP == 100
\* WHEEL_CIRCUMFERENCE = 2 * M_PI * 0.005 m, in micrometres
WHEEL_CIRCUMFERENCE_UM == 31416
\* 200.0f km/h and 99999.0f rpm
SPEED_LIMIT_KMH == 200
RPM_LIMIT == 99999

DIR_STOPPED == 0
DIR_FORWARD == 1
DIR_REVERSE == -1

\* A number of ticks, in quanta.
Q(ticks) == ticks \div TimerQuantum

\* 0xFFFFFFFF, the load value of the periodic down counter, in quanta.
TIMER_MAX == 65536 * (65536 \div TimerQuantum) - 1

(***************************************************************************)
(* Arithmetic helpers.                                                     *)
(***************************************************************************)
\* floor(x * y / z) for x, y >= 0, z > 0, computed bit by bit so that no
\* intermediate value leaves the 32 bit range of TLC.
RECURSIVE MulDivRem(_, _, _)
MulDivRem(x, yr, z) ==
    IF x = 0 THEN <<0, 0>>
    ELSE LET h  == MulDivRem(x \div 2, yr, z)
             r2 == 2 * h[2] + (x % 2) * yr
         IN  <<2 * h[1] + (r2 \div z), r2 % z>>

MulDiv(x, y, z) == x * (y \div z) + MulDivRem(x, y % z, z)[1]

(***************************************************************************)
(* Elapsed time over the down counter: HandleEdge lines 153-159 and        *)
(* Sensor_GetSpeed lines 339-345 each carry their own copy.                *)
(***************************************************************************)
EdgePeriod(last_edge_time, current_time) ==
    IF last_edge_time >= current_time
    THEN last_edge_time - current_time
    ELSE last_edge_time + (TIMER_MAX - current_time) + 1

\* Faulty variant: the wrapped branch without its + 1.
TimeDeltaNoCarry(last_display_time, current_time) ==
    IF last_display_time >= current_time
    THEN last_display_time - current_time
    ELSE last_display_time + (TIMER_MAX - current_time)

TimeDelta(last_display_time, current_time) ==
    IF last_display_time >= current_time
    THEN last_display_time - current_time
    ELSE last_display_time + (TIMER_MAX - current_time) + 1

(***************************************************************************)
(* The same lines at the full width of uint32_t, a value being the pair    *)
(* <<high half, low half>> of its 16-bit halves: >=, - and + as the        *)
(* unsigned arithmetic of C computes them, modulo 2^32.                    *)
(***************************************************************************)
WideGeq(a, b) == a[1] > b[1] \/ (a[1] = b[1] /\ a[2] >= b[2])

WideSub(a, b) ==
    LET borrow == IF a[2] < b[2] THEN 1 ELSE 0
    IN  << (a[1] - b[1] - borrow + 65536) % 65536, (a[2] - b[2] + 65536) % 65536 >>

WideAdd(a, b) ==
    LET carry == (a[2] + b[2]) \div 65536
    IN  << (a[1] + b[1] + carry) % 65536, (a[2] + b[2]) % 65536 >>

WidePeriod(last_edge_time, current_time) ==
    IF WideGeq(last_edge_time, current_time)
    THEN WideSub(last_edge_time, current_time)
    ELSE WideAdd(WideAdd(last_edge_time,
                         WideSub(<<65535, 65535>>, current_time)),
                 <<0, 1>>)

WideTimeDelta(last_display_time, current_time) ==
    IF WideGeq(last_display_time, current_time)
    THEN WideSub(last_display_time, current_time)
    ELSE WideAdd(WideAdd(last_display_time,
                         WideSub(<<65535, 65535>>, current_time)),
                 <<0, 1>>)

\* Line 337 at the full width: edges_delta = edge_copy -
\* last_display_edge_count, and line 165, edge_count++, n times.
WideEdgesDelta(edge_copy, last_display_edge_count) ==
    WideSub(edge_copy, last_display_edge_count)

WideCounted(edge_count, n) == WideAdd(edge_count, <<0, n>>)

(***************************************************************************)
(* Direction lookup table, Table[old_state][new_state].                    *)
(***************************************************************************)
\* Faulty variant: the transition 01 -> 10, two bits at once, decoded as a
\* forward step.
TableWithDiagonalStep ==
    <<  <<  0,  1, -1,  0 >>,
        << -1,  0,  1,  1 >>,
        <<  1,  0,  0, -1 >>,
        <<  0, -1,  1,  0 >>  >>

DIRECTION_TABLE ==
    <<  <<  0,  1, -1,  0 >>,
        << -1,  0,  0,  1 >>,
        <<  1,  0,  0, -1 >>,
        <<  0, -1,  1,  0 >>  >>

TableEntry(old_state, new_state) == DIRECTION_TABLE[old_state + 1][new_state + 1]

\* The rotation sequences of the file header:
\* forward 11 -> 01 -> 00 -> 10 -> 11, backward 11 -> 10 -> 00 -> 01 -> 11.
ForwardNext(s) == CASE s = 3 -> 1 [] s = 1 -> 0 [] s = 0 -> 2 [] s = 2 -> 3
BackwardNext(s) == CASE s = 3 -> 2 [] s = 2 -> 0 [] s = 0 -> 1 [] s = 1 -> 3

(***************************************************************************)
(* HandleEdge: one invocation, as a function of the volatile variables v,  *)
(* the timer value read and the pin state sampled.                         *)
(***************************************************************************)
\* Faulty variant: the upper limit of the period left out.
PeriodAboveMinimum(period) == period > Q(MIN_PERIOD)

PeriodValid(period) == period > Q(MIN_PERIOD) /\ period < Q(STOPPED_TIMEOUT)

\* Faulty variant: the vote without its clamp.
VoteUnclamped(direction_counter, dir) ==
    IF dir > 0 THEN direction_counter + 1
    ELSE IF dir < 0 THEN direction_counter - 1
    ELSE direction_counter

VoteApplied(direction_counter, dir) ==
    IF dir > 0
    THEN (IF direction_counter + 1 > DIRECTION_CLAMP
          THEN DIRECTION_CLAMP ELSE direction_counter + 1)
    ELSE IF dir < 0
    THEN (IF direction_counter - 1 < -DIRECTION_CLAMP
          THEN -DIRECTION_CLAMP ELSE direction_counter - 1)
    ELSE direction_counter

EdgeAccepted(v, current_time, current_state) ==
    /\ current_state # v.last_state
    /\ PeriodValid(EdgePeriod(v.last_edge_time, current_time))

\* Faulty variant: a transition rejected for its period leaves the
\* reference time where it was.
HandleEdgeKeepsReference(v, current_time, current_state) ==
    LET dir == TableEntry(v.last_state, current_state)
    IN  IF current_state # v.last_state
        THEN LET period == EdgePeriod(v.last_edge_time, current_time)
             IN  IF PeriodValid(period)
                 THEN [ last_edge_time    |-> current_time,
                        last_state        |-> current_state,
                        direction_counter |-> VoteApplied(v.direction_counter, dir),
                        edge_count        |-> v.edge_count + 1,
                        interrupt_count   |-> v.interrupt_count + 1 ]
                 ELSE [ v EXCEPT !.last_state      = current_state,
                                 !.interrupt_count = v.interrupt_count + 1 ]
        ELSE [ v EXCEPT !.interrupt_count = v.interrupt_count + 1 ]

\* Faulty variant: an invocation that finds the state unchanged still moves
\* the reference time.
HandleEdgeGlitchMovesReference(v, current_time, current_state) ==
    LET dir == TableEntry(v.last_state, current_state)
    IN  IF current_state # v.last_state
        THEN LET period == EdgePeriod(v.last_edge_time, current_time)
             IN  IF PeriodValid(period)
                 THEN [ last_edge_time    |-> current_time,
                        last_state        |-> current_state,
                        direction_counter |-> VoteApplied(v.direction_counter, dir),
                        edge_count        |-> v.edge_count + 1,
                        interrupt_count   |-> v.interrupt_count + 1 ]
                 ELSE [ v EXCEPT !.last_edge_time  = current_time,
                                 !.last_state      = current_state,
                                 !.interrupt_count = v.interrupt_count + 1 ]
        ELSE [ v EXCEPT !.last_edge_time  = current_time,
                        !.interrupt_count = v.interrupt_count + 1 ]

HandleEdgeOp(v, current_time, current_state) ==
    LET dir == TableEntry(v.last_state, current_state)
    IN  IF current_state # v.last_state
        THEN LET period == EdgePeriod(v.last_edge_time, current_time)
             IN  IF PeriodValid(period)
                 THEN [ last_edge_time    |-> current_time,
                        last_state        |-> current_state,
                        direction_counter |-> VoteApplied(v.direction_counter, dir),
                        edge_count        |-> v.edge_count + 1,
                        interrupt_count   |-> v.interrupt_count + 1 ]
                 ELSE [ v EXCEPT !.last_edge_time  = current_time,
                                 !.last_state      = current_state,
                                 !.interrupt_count = v.interrupt_count + 1 ]
        ELSE [ v EXCEPT !.interrupt_count = v.interrupt_count + 1 ]

(***************************************************************************)
(* Sensor_GetSpeed, lines 336-454: the computation on the copies.          *)
(***************************************************************************)
\* Faulty variant: revolutions per second, the factor 60 left out.
RawRpmPerSecond(edges_delta, time_delta) ==
    MulDiv(edges_delta * 1000, Q(TIMER_FREQ) \div EDGES_PER_ROTATION, time_delta)

\* rpm = (rotations / time_seconds) * 60, in 1/1000 rpm.
RawRpm(edges_delta, time_delta) ==
    MulDiv(edges_delta * 1000,
           (Q(TIMER_FREQ) * 60) \div EDGES_PER_ROTATION,
           time_delta)

\* velocity_kmh = rotations * WHEEL_CIRCUMFERENCE / time_seconds * 3.6, in
\* metres per hour: edges * C[um] * F * 3600 / (4 * 10^6 * time_delta).
RawKmh(edges_delta, time_delta) ==
    MulDiv(edges_delta,
           WHEEL_CIRCUMFERENCE_UM * (Q(TIMER_FREQ) \div 10000)
               * ((3600 \div EDGES_PER_ROTATION) \div 100),
           time_delta)

\* rotations * WHEEL_CIRCUMFERENCE, in micrometres.
DistanceOf(edges_delta) ==
    (edges_delta * WHEEL_CIRCUMFERENCE_UM) \div EDGES_PER_ROTATION

\* Lines 375-380: the sanity check of the speed.
SpeedChecked(velocity_kmh, current_speed_kmh) ==
    IF velocity_kmh > SPEED_LIMIT_KMH * 1000 THEN current_speed_kmh
    ELSE IF velocity_kmh < 0 THEN 0
    ELSE velocity_kmh

\* Faulty variant: the RPM without its upper clamp.
RpmNotClamped(rpm) == IF rpm < 0 THEN 0 ELSE rpm

\* Lines 382-387: the sanity check of the RPM.
RpmChecked(rpm) ==
    IF rpm > RPM_LIMIT * 1000 THEN RPM_LIMIT * 1000
    ELSE IF rpm < 0 THEN 0
    ELSE rpm

\* for (i = 0; i < count; i++) sum += buffer[i];
RECURSIVE BufferSum(_, _)
BufferSum(buffer, count) ==
    IF count = 0 THEN 0 ELSE BufferSum(buffer, count - 1) + buffer[count - 1]

\* Lines 389-401 and 403-415: store at the index, advance it, raise the
\* count up to the size, average the first count slots.
FilterPush(buffer, index, count, size, sample) ==
    LET b == [buffer EXCEPT ![index] = sample]
        c == IF count < size THEN count + 1 ELSE count
    IN  [ buffer  |-> b,
          index   |-> (index + 1) % size,
          count   |-> c,
          average |-> BufferSum(b, c) \div c ]

\* Faulty variant: the direction flips when the vote reaches the threshold,
\* not when it exceeds it.
DirectionEager(dir_copy, current_direction) ==
    IF dir_copy >= DIRECTION_THRESHOLD THEN DIR_FORWARD
    ELSE IF dir_copy <= -DIRECTION_THRESHOLD THEN DIR_REVERSE
    ELSE current_direction

\* Faulty variant: a vote inside the band reports DIR_STOPPED instead of
\* keeping the direction.
DirectionNotSticky(dir_copy, current_direction) ==
    IF dir_copy > DIRECTION_THRESHOLD THEN DIR_FORWARD
    ELSE IF dir_copy < -DIRECTION_THRESHOLD THEN DIR_REVERSE
    ELSE DIR_STOPPED

\* Faulty variant: a stopped motor takes the sign of any vote.
DirectionLeavesStopped(dir_copy, current_direction) ==
    IF dir_copy > DIRECTION_THRESHOLD THEN DIR_FORWARD
    ELSE IF dir_copy < -DIRECTION_THRESHOLD THEN DIR_REVERSE
    ELSE IF current_direction = DIR_STOPPED /\ dir_copy > 0 THEN DIR_FORWARD
    ELSE IF current_direction = DIR_STOPPED /\ dir_copy < 0 THEN DIR_REVERSE
    ELSE current_direction

\* Lines 417-423: direction with hysteresis.
DirectionResolved(dir_copy, current_direction) ==
    IF dir_copy > DIRECTION_THRESHOLD THEN DIR_FORWARD
    ELSE IF dir_copy < -DIRECTION_THRESHOLD THEN DIR_REVERSE
    ELSE current_direction

\* Line 337.  Both counters stay far below 2^31 within the bounds of the
\* model and edge_copy is never behind the window start, so the unsigned
\* subtraction does not wrap here.
EdgesDelta(e, edge_copy) == edge_copy - e.last_display_edge_count

\* Which branch of lines 348 / 432 a call takes.
\* Faulty variant: the stall test made before the test for new edges.
PathStallFirst(e, current_time, edge_copy) ==
    LET edges_delta == EdgesDelta(e, edge_copy)
        time_delta  == TimeDelta(e.last_display_time, current_time)
    IN  IF time_delta > Q(STOPPED_TIMEOUT) THEN "stall"
        ELSE IF time_delta >= Q(MIN_UPDATE_INTERVAL) /\ edges_delta > 0
        THEN "success"
        ELSE "noop"

PathOf(e, current_time, edge_copy) ==
    LET edges_delta == EdgesDelta(e, edge_copy)
        time_delta  == TimeDelta(e.last_display_time, current_time)
    IN  IF time_delta >= Q(MIN_UPDATE_INTERVAL) /\ edges_delta > 0
        THEN "success"
        ELSE IF time_delta > Q(STOPPED_TIMEOUT) THEN "stall"
        ELSE "noop"

\* Lines 348-430.
SuccessCycle(e, current_time, edge_copy, dir_copy) ==
    LET edges_delta == EdgesDelta(e, edge_copy)
        time_delta  == TimeDelta(e.last_display_time, current_time)
        velocity_kmh == SpeedChecked(RawKmh(edges_delta, time_delta),
                                     e.current_speed_kmh)
        rpm == RpmChecked(RawRpm(edges_delta, time_delta))
        sf  == FilterPush(e.speed_buffer, e.speed_filter_index,
                          e.speed_filter_count, SPEED_FILTER_SIZE, velocity_kmh)
        rf  == FilterPush(e.rpm_buffer, e.rpm_filter_index,
                          e.rpm_filter_count, RPM_FILTER_SIZE, rpm)
    IN  [ current_direction  |-> DirectionResolved(dir_copy, e.current_direction),
          current_speed_kmh  |-> sf.average,
          current_rpm        |-> rf.average,
          accumulated_distance |-> e.accumulated_distance + DistanceOf(edges_delta),
          last_display_edge_count |-> edge_copy,
          last_display_time  |-> current_time,
          speed_buffer       |-> sf.buffer,
          speed_filter_index |-> sf.index,
          speed_filter_count |-> sf.count,
          rpm_buffer         |-> rf.buffer,
          rpm_filter_index   |-> rf.index,
          rpm_filter_count   |-> rf.count ]

\* Faulty variant: the stall branch forgets current_rpm.
StallKeepsRpm(e, current_time, edge_copy) ==
    [ e EXCEPT !.current_speed_kmh  = 0,
               !.current_direction  = DIR_STOPPED,
               !.speed_buffer       = [i \in 0 .. SPEED_FILTER_SIZE - 1 |-> 0],
               !.speed_filter_count = 0,
               !.rpm_buffer         = [i \in 0 .. RPM_FILTER_SIZE - 1 |-> 0],
               !.rpm_filter_count   = 0,
               !.last_display_edge_count = edge_copy,
               !.last_display_time  = current_time ]

\* Faulty variant: the stall branch also clears the distance.
StallClearsDistance(e, current_time, edge_copy) ==
    [ e EXCEPT !.current_speed_kmh  = 0,
               !.current_rpm        = 0,
               !.current_direction  = DIR_STOPPED,
               !.accumulated_distance = 0,
               !.speed_buffer       = [i \in 0 .. SPEED_FILTER_SIZE - 1 |-> 0],
               !.speed_filter_count = 0,
               !.rpm_buffer         = [i \in 0 .. RPM_FILTER_SIZE - 1 |-> 0],
               !.rpm_filter_count   = 0,
               !.last_display_edge_count = edge_copy,
               !.last_display_time  = current_time ]

\* Faulty variant: the stall branch leaves the window where it was.
StallKeepsWindow(e, current_time, edge_copy) ==
    [ e EXCEPT !.current_speed_kmh  = 0,
               !.current_rpm        = 0,
               !.current_direction  = DIR_STOPPED,
               !.speed_buffer       = [i \in 0 .. SPEED_FILTER_SIZE - 1 |-> 0],
               !.speed_filter_count = 0,
               !.rpm_buffer         = [i \in 0 .. RPM_FILTER_SIZE - 1 |-> 0],
               !.rpm_filter_count   = 0 ]

\* Lines 432-452.
StallCycle(e, current_time, edge_copy) ==
    [ e EXCEPT !.current_speed_kmh  = 0,
               !.current_rpm        = 0,
               !.current_direction  = DIR_STOPPED,
               !.speed_buffer       = [i \in 0 .. SPEED_FILTER_SIZE - 1 |-> 0],
               !.speed_filter_count = 0,
               !.rpm_buffer         = [i \in 0 .. RPM_FILTER_SIZE - 1 |-> 0],
               !.rpm_filter_count   = 0,
               !.last_display_edge_count = edge_copy,
               !.last_display_time  = current_time ]

\* Faulty variant: a call that is neither a success nor a stall restarts the
\* measurement window.
ComputeRestartsWindow(e, current_time, edge_copy, dir_copy) ==
    LET path == PathOf(e, current_time, edge_copy)
    IN  IF path = "success" THEN SuccessCycle(e, current_time, edge_copy, dir_copy)
        ELSE IF path = "stall" THEN StallCycle(e, current_time, edge_copy)
        ELSE [ e EXCEPT !.last_display_time = current_time ]

ComputeOp(e, current_time, edge_copy, dir_copy) ==
    LET path == PathOf(e, current_time, edge_copy)
    IN  IF path = "success" THEN SuccessCycle(e, current_time, edge_copy, dir_copy)
        ELSE IF path = "stall" THEN StallCycle(e, current_time, edge_copy)
        ELSE e

(***************************************************************************)
(* Getters, lines 457-491: plain reads of the stored values.               *)
(***************************************************************************)
Sensor_GetDirection == est.current_direction
Sensor_GetDistance == est.accumulated_distance
Sensor_GetRPM == est.current_rpm
Sensor_GetInterruptCount == vol.interrupt_count
Sensor_GetEdgeCount == vol.edge_count

(***************************************************************************)
(* Initial state: the static initialisers of Sensor.c lines 76-103, before *)
(* Sensor_Init; interrupts are enabled at reset and by main.c line 134.    *)
(***************************************************************************)
ZeroBuffer(size) == [i \in 0 .. size - 1 |-> 0]

VolInit ==
    [ last_edge_time    |-> 0,
      last_state        |-> 0,
      direction_counter |-> 0,
      edge_count        |-> 0,
      interrupt_count   |-> 0 ]

EstInit ==
    [ current_direction  |-> DIR_STOPPED,
      current_speed_kmh  |-> 0,
      current_rpm        |-> 0,
      accumulated_distance |-> 0,
      last_display_edge_count |-> 0,
      last_display_time  |-> 0,
      speed_buffer       |-> ZeroBuffer(SPEED_FILTER_SIZE),
      speed_filter_index |-> 0,
      speed_filter_count |-> 0,
      rpm_buffer         |-> ZeroBuffer(RPM_FILTER_SIZE),
      rpm_filter_index   |-> 0,
      rpm_filter_count   |-> 0 ]

\* dist_load is the value of accumulated_distance that line 426 has read and
\* not yet written back.  since_reset and pressed_at are observations: the
\* distance added since the last reset, and where Sensor_GetSpeed stood when
\* the button was pressed.
LocInit == [ current_time |-> 0, int_copy |-> 0, edge_copy |-> 0, dir_copy |-> 0,
             at_mask |-> <<0, 0>>, isr |-> <<>>,
             buttonPressed |-> 0, dist_load |-> 0,
             since_reset |-> 0, pressed_at |-> "none" ]

\* The record of the operation that ran last: its name, the branch it took,
\* the variables as it found them, its inputs and what it returned.
NoOp == [ op |-> "none", path |-> "none", est |-> EstInit, vol |-> VolInit,
          ret |-> 0, edge_copy |-> 0, dir_copy |-> 0, current_time |-> 0,
          state |-> 0, idle_q |-> 0, elapsed |-> 0 ]

\* window tells which step started the measurement window, at and edges
\* what the timer and edge_count held at that step.
NoHist == [ speed |-> <<>>, rpm |-> <<>>, window |-> "init", at |-> 0, edges |-> 0 ]

IdleCap == Q(STOPPED_TIMEOUT) + 1

Init ==
    /\ timer = TIMER_MAX
    /\ intMaster = TRUE
    /\ irqEnabled = FALSE
    /\ init_pc = "none"
    /\ gs_pc = "idle"
    /\ vol = VolInit
    /\ est = EstInit
    /\ loc = LocInit
    /\ last = NoOp
    /\ hist = NoHist
    /\ idle_q = 0
    /\ budget = [ ticks |-> 0, edges |-> 0, calls |-> 0, resets |-> 0 ]

\* The main thread is between two calls.
MainIdle == gs_pc = "idle" /\ init_pc \in {"none", "done"}

(***************************************************************************)
(* Sensor_Init, lines 205-293.                                             *)
(***************************************************************************)
\* Lines 264-283: the estimator's variables (current_rpm is not among
\* them), the window and the filters.
InitEstimator(e, t) ==
    [ EstInit EXCEPT !.last_display_time = t, !.current_rpm = e.current_rpm ]

\* The whole call with no edge interrupt inside it; s is the pin state
\* read at lines 252-254.
Sensor_Init ==
    /\ init_pc = "none" /\ gs_pc = "idle"
    /\ \E s \in 0 .. 3 :
         vol' = [ VolInit EXCEPT !.last_state = s, !.last_edge_time = TIMER_MAX ]
    /\ timer' = TIMER_MAX
    /\ irqEnabled' = TRUE
    /\ est' = InitEstimator(est, TIMER_MAX)
    /\ init_pc' = "done"
    /\ hist' = NoHist
    /\ idle_q' = 0
    /\ last' = [ NoOp EXCEPT !.op = "Sensor_Init", !.est = est ]
    /\ UNCHANGED <<intMaster, gs_pc, loc, budget>>

\* The call step by step.  Each store to a volatile variable is a step of
\* its own: the edge interrupts are enabled from line 240 on.
\* Lines 208-249: GPIO, interrupts enabled in the NVIC, timer loaded with
\* 0xFFFFFFFF and started.
Init_Enable ==
    /\ init_pc = "none" /\ gs_pc = "idle"
    /\ init_pc' = "armed"
    /\ irqEnabled' = TRUE
    /\ timer' = TIMER_MAX
    /\ UNCHANGED <<intMaster, gs_pc, vol, est, loc, last, hist, idle_q, budget>>

\* Lines 252-254: last_state = (s1 << 1) | s2.
Init_ReadState ==
    /\ init_pc = "armed"
    /\ \E s \in 0 .. 3 : vol' = [vol EXCEPT !.last_state = s]
    /\ init_pc' = "state_read"
    /\ UNCHANGED <<timer, intMaster, irqEnabled, gs_pc, est, loc, last, hist,
                   idle_q, budget>>

\* Line 255: last_edge_time = TimerValueGet().
Init_ReadTime ==
    /\ init_pc = "state_read"
    /\ vol' = [vol EXCEPT !.last_edge_time = timer]
    /\ init_pc' = "time_read"
    /\ UNCHANGED <<timer, intMaster, irqEnabled, gs_pc, est, loc, last, hist,
                   idle_q, budget>>

\* Lines 258-260: direction_counter = 0.
Init_ZeroDirection ==
    /\ init_pc = "time_read"
    /\ vol' = [vol EXCEPT !.direction_counter = 0]
    /\ init_pc' = "dir_zeroed"
    /\ UNCHANGED <<timer, intMaster, irqEnabled, gs_pc, est, loc, last, hist,
                   idle_q, budget>>

\* Line 261: edge_count = 0.
Init_ZeroEdgeCount ==
    /\ init_pc = "dir_zeroed"
    /\ vol' = [vol EXCEPT !.edge_count = 0]
    /\ init_pc' = "edge_zeroed"
    /\ UNCHANGED <<timer, intMaster, irqEnabled, gs_pc, est, loc, last, hist,
                   idle_q, budget>>

\* Lines 262-263: interrupt_count = 0.
Init_ZeroInterruptCount ==
    /\ init_pc = "edge_zeroed"
    /\ vol' = [vol EXCEPT !.interrupt_count = 0]
    /\ init_pc' = "int_zeroed"
    /\ UNCHANGED <<timer, intMaster, irqEnabled, gs_pc, est, loc, last, hist,
                   idle_q, budget>>

\* Lines 264-283.
Init_Finish ==
    /\ init_pc = "int_zeroed"
    /\ est' = InitEstimator(est, timer)
    /\ init_pc' = "done"
    /\ hist' = NoHist
    /\ idle_q' = 0
    /\ last' = [ NoOp EXCEPT !.op = "Sensor_Init", !.est = est ]
    /\ UNCHANGED <<timer, intMaster, irqEnabled, gs_pc, vol, loc, budget>>

(***************************************************************************)
(* Time.  The timer counts down; the model lets it run by the durations    *)
(* that sit on the thresholds of the program.  Time passes between the     *)
(* calls of the main loop: a call is short against these durations.        *)
(***************************************************************************)
TickMenu == { Q(MIN_UPDATE_INTERVAL), Q(STOPPED_TIMEOUT) }

PreemptTickMenu == { Q(MIN_PERIOD), Q(MIN_UPDATE_INTERVAL) }

EdgeTickMenu == { Q(MIN_PERIOD), Q(MIN_UPDATE_INTERVAL), Q(STOPPED_TIMEOUT) }

TimerAfter(t, d) == (t + (TIMER_MAX + 1) - (d % (TIMER_MAX + 1))) % (TIMER_MAX + 1)

IdleAfter(i, d) == IF i + d > IdleCap THEN IdleCap ELSE i + d

Tick(d) ==
    /\ init_pc = "done" /\ gs_pc = "idle"
    /\ timer' = TimerAfter(timer, d)
    /\ idle_q' = IdleAfter(idle_q, d)
    /\ last' = [ NoOp EXCEPT !.op = "Tick" ]
    /\ budget' = [budget EXCEPT !.ticks = @ + 1]
    /\ UNCHANGED <<intMaster, irqEnabled, init_pc, gs_pc, vol, est, loc, hist>>

(***************************************************************************)
(* The edge interrupts, lines 131-202.  Both handlers have priority 0, so  *)
(* neither preempts the other: a handler runs to completion in one step.   *)
(* It runs only while its interrupt is enabled in the NVIC and PRIMASK is  *)
(* clear.  The pin state it samples is an input.                           *)
(***************************************************************************)
EdgePath(v, current_time, current_state) ==
    IF current_state = v.last_state THEN "glitch"
    ELSE IF EdgeAccepted(v, current_time, current_state) THEN "accepted"
    ELSE "rejected"

InterruptsTaken == irqEnabled /\ intMaster

EdgeRecord(v, current_time, current_state) ==
    [ NoOp EXCEPT !.op = "HandleEdge",
                  !.path = EdgePath(v, current_time, current_state),
                  !.vol = v,
                  !.state = current_state,
                  !.current_time = current_time,
                  !.idle_q = idle_q,
                  !.elapsed = IF current_state # v.last_state
                              THEN EdgePeriod(v.last_edge_time, current_time)
                              ELSE 0 ]

HandleEdge(current_state) ==
    /\ InterruptsTaken
    /\ vol' = HandleEdgeOp(vol, timer, current_state)
    /\ idle_q' = IF EdgeAccepted(vol, timer, current_state) THEN 0 ELSE idle_q
    /\ last' = EdgeRecord(vol, timer, current_state)
    /\ budget' = [budget EXCEPT !.edges = @ + 1]
    /\ UNCHANGED <<timer, intMaster, irqEnabled, init_pc, gs_pc, est, loc, hist>>

GPIOP0_IRQHandler == \E s \in 0 .. 3 : HandleEdge(s)

GPIOP1_IRQHandler == \E s \in 0 .. 3 : HandleEdge(s)

(***************************************************************************)
(* The edge interrupts statement by statement.  loc.isr is the stack of    *)
(* the handlers in progress, the running one last.  The NVIC starts a      *)
(* handler while another runs only if its priority value is lower; the     *)
(* main thread runs only while no handler is in progress.                  *)
(***************************************************************************)
HandlerNames == {"GPIOP0_IRQHandler", "GPIOP1_IRQHandler"}

\* Faulty variant: INT_GPIOP1 keeps priority 0x00, INT_GPIOP0 is given 0x20.
IntPriorityP0Lowered(h) == IF h = "GPIOP0_IRQHandler" THEN 32 ELSE 0

\* Lines 235-236: IntPrioritySet(INT_GPIOP0, 0x00) and
\* IntPrioritySet(INT_GPIOP1, 0x00).
IntPriorityGet(h) == IF h = "GPIOP0_IRQHandler" THEN 0 ELSE 0

ThreadRuns == loc.isr = <<>>

IsrTop == loc.isr[Len(loc.isr)]

IsrAt(pc) == loc.isr # <<>> /\ IsrTop.pc = pc

IsrWith(f) == [loc EXCEPT !.isr = [@ EXCEPT ![Len(@)] = f]]

Preempts(h) ==
    \/ loc.isr = <<>>
    \/ loc.isr # <<>> /\ IntPriorityGet(h) < IntPriorityGet(IsrTop.handler)

\* Lines 185-191 and 195-201: the handler is entered and clears its
\* interrupt; HandleEdge is called.
HE_Enter(h) ==
    /\ init_pc = "done"
    /\ InterruptsTaken
    /\ Preempts(h)
    /\ loc' = [loc EXCEPT !.isr =
                 Append(@, [ handler |-> h, pc |-> "entered", entry |-> vol,
                             current_time |-> 0, current_state |-> 0,
                             dir |-> 0, period |-> 0 ])]
    /\ budget' = [budget EXCEPT !.edges = @ + 1]
    /\ UNCHANGED <<timer, intMaster, irqEnabled, init_pc, gs_pc, vol, est, last,
                   hist, idle_q>>

\* Line 139: current_time = TimerValueGet().
HE_ReadTimer ==
    /\ IsrAt("entered")
    /\ loc' = IsrWith([IsrTop EXCEPT !.current_time = timer, !.pc = "timed"])
    /\ UNCHANGED <<timer, intMaster, irqEnabled, init_pc, gs_pc, vol, est, last,
                   hist, idle_q, budget>>

\* Lines 142-144: current_state = (s1 << 1) | s2.
HE_ReadPins ==
    /\ IsrAt("timed")
    /\ \E s \in 0 .. 3 :
         loc' = IsrWith([IsrTop EXCEPT !.current_state = s, !.pc = "sampled"])
    /\ UNCHANGED <<timer, intMaster, irqEnabled, init_pc, gs_pc, vol, est, last,
                   hist, idle_q, budget>>

\* Line 147: dir = DIRECTION_TABLE[last_state][current_state].
HE_Decode ==
    /\ IsrAt("sampled")
    /\ loc' = IsrWith([IsrTop EXCEPT
                         !.dir = TableEntry(vol.last_state, IsrTop.current_state),
                         !.pc = "decoded"])
    /\ UNCHANGED <<timer, intMaster, irqEnabled, init_pc, gs_pc, vol, est, last,
                   hist, idle_q, budget>>

\* Line 150: if (current_state != last_state).
HE_TestState ==
    /\ IsrAt("decoded")
    /\ loc' = IsrWith([IsrTop EXCEPT
                         !.pc = IF IsrTop.current_state # vol.last_state
                                THEN "changed" ELSE "counting"])
    /\ UNCHANGED <<timer, intMaster, irqEnabled, init_pc, gs_pc, vol, est, last,
                   hist, idle_q, budget>>

\* Lines 154-159: period.
HE_Period ==
    /\ IsrAt("changed")
    /\ loc' = IsrWith([IsrTop EXCEPT
                         !.period = EdgePeriod(vol.last_edge_time, IsrTop.current_time),
                         !.pc = "measured"])
    /\ UNCHANGED <<timer, intMaster, irqEnabled, init_pc, gs_pc, vol, est, last,
                   hist, idle_q, budget>>

\* Line 162: if (period > MIN_PERIOD && period < STOPPED_TIMEOUT).
HE_TestPeriod ==
    /\ IsrAt("measured")
    /\ loc' = IsrWith([IsrTop EXCEPT
                         !.pc = IF PeriodValid(IsrTop.period)
                                THEN "valid" ELSE "reference"])
    /\ UNCHANGED <<timer, intMaster, irqEnabled, init_pc, gs_pc, vol, est, last,
                   hist, idle_q, budget>>

\* Line 165: edge_count++.
HE_CountEdge ==
    /\ IsrAt("valid")
    /\ vol' = [vol EXCEPT !.edge_count = @ + 1]
    /\ loc' = IsrWith([IsrTop EXCEPT !.pc = "edge_counted"])
    /\ UNCHANGED <<timer, intMaster, irqEnabled, init_pc, gs_pc, est, last, hist,
                   idle_q, budget>>

\* Lines 168-174: the vote and its clamp.
HE_Vote ==
    /\ IsrAt("edge_counted")
    /\ vol' = [vol EXCEPT !.direction_counter = VoteApplied(@, IsrTop.dir)]
    /\ loc' = IsrWith([IsrTop EXCEPT !.pc = "reference"])
    /\ UNCHANGED <<timer, intMaster, irqEnabled, init_pc, gs_pc, est, last, hist,
                   idle_q, budget>>

\* Line 177: last_edge_time = current_time.
HE_StoreTime ==
    /\ IsrAt("reference")
    /\ vol' = [vol EXCEPT !.last_edge_time = IsrTop.current_time]
    /\ loc' = IsrWith([IsrTop EXCEPT !.pc = "time_stored"])
    /\ UNCHANGED <<timer, intMaster, irqEnabled, init_pc, gs_pc, est, last, hist,
                   idle_q, budget>>

\* Line 178: last_state = current_state.
HE_StoreState ==
    /\ IsrAt("time_stored")
    /\ vol' = [vol EXCEPT !.last_state = IsrTop.current_state]
    /\ loc' = IsrWith([IsrTop EXCEPT !.pc = "counting"])
    /\ UNCHANGED <<timer, intMaster, irqEnabled, init_pc, gs_pc, est, last, hist,
                   idle_q, budget>>

\* Line 181: interrupt_count++.
HE_CountInterrupt ==
    /\ IsrAt("counting")
    /\ vol' = [vol EXCEPT !.interrupt_count = @ + 1]
    /\ loc' = IsrWith([IsrTop EXCEPT !.pc = "returning"])
    /\ UNCHANGED <<timer, intMaster, irqEnabled, init_pc, gs_pc, est, last, hist,
                   idle_q, budget>>

\* Lines 182 and 192 or 202: the handler returns.
HE_Return ==
    /\ IsrAt("returning")
    /\ loc' = [loc EXCEPT !.isr = SubSeq(@, 1, Len(@) - 1)]
    /\ last' = EdgeRecord(IsrTop.entry, IsrTop.current_time, IsrTop.current_state)
    /\ idle_q' = IF EdgeAccepted(IsrTop.entry, IsrTop.current_time,
                                 IsrTop.current_state)
                 THEN 0 ELSE idle_q
    /\ UNCHANGED <<timer, intMaster, irqEnabled, init_pc, gs_pc, vol, est, hist,
                   budget>>

(***************************************************************************)
(* A rotation of n >= 2 quadrature steps in one direction, each step one   *)
(* handler invocation, spaced just over MIN_PERIOD apart.                  *)
(***************************************************************************)
RotationGap == Q(MIN_PERIOD) + 1

\* <<the volatile variables after the last step, the timer then, the
\*   volatile variables before the last step>>
RECURSIVE RotateOp(_, _, _, _)
RotateOp(v, t, n, forward) ==
    IF n = 0 THEN <<v, t, v>>
    ELSE IF n = 1
    THEN LET t1 == TimerAfter(t, RotationGap)
             s1 == IF forward THEN ForwardNext(v.last_state)
                   ELSE BackwardNext(v.last_state)
         IN  <<HandleEdgeOp(v, t1, s1), t1, v>>
    ELSE CHOOSE r \in { RotateOp(m[1], m[2], n - (n \div 2), forward) :
                        m \in { RotateOp(v, t, n \div 2, forward) } } : TRUE

Rotation(n, forward) ==
    /\ init_pc = "done" /\ gs_pc = "idle"
    /\ InterruptsTaken
    /\ \E r \in { RotateOp(vol, timer, n, forward) } :
           /\ vol' = r[1]
           /\ timer' = r[2]
           /\ idle_q' = 0
           /\ last' = [ EdgeRecord(r[3], r[2], r[1].last_state) EXCEPT !.idle_q = RotationGap ]
    /\ budget' = [budget EXCEPT !.edges = @ + 1]
    /\ UNCHANGED <<intMaster, irqEnabled, init_pc, gs_pc, est, loc, hist>>

(***************************************************************************)
(* Sensor_GetSpeed, lines 296-455.                                         *)
(***************************************************************************)
\* What the filters were fed since they were last cleared, and the call
\* that started the window.
HistAfter(h, path, e1) ==
    IF path = "success"
    THEN [ speed |-> Append(h.speed,
                        e1.speed_buffer[(e1.speed_filter_index + SPEED_FILTER_SIZE - 1)
                                        % SPEED_FILTER_SIZE]),
           rpm   |-> Append(h.rpm,
                        e1.rpm_buffer[(e1.rpm_filter_index + RPM_FILTER_SIZE - 1)
                                      % RPM_FILTER_SIZE]),
           window |-> "success", at |-> timer, edges |-> vol.edge_count ]
    ELSE IF path = "stall"
    THEN [ NoHist EXCEPT !.window = "stall", !.at = timer, !.edges = vol.edge_count ]
    ELSE h

CallRecord(e, e1, current_time, edge_copy, dir_copy) ==
    [ NoOp EXCEPT !.op = "Sensor_GetSpeed",
                  !.path = PathOf(e, current_time, edge_copy),
                  !.est = e,
                  !.ret = e1.current_speed_kmh,
                  !.edge_copy = edge_copy,
                  !.dir_copy = dir_copy,
                  !.current_time = current_time,
                  !.idle_q = idle_q,
                  !.elapsed = TimeDelta(e.last_display_time, current_time) ]

\* The whole call with no edge interrupt inside it.
Sensor_GetSpeed ==
    /\ init_pc = "done" /\ gs_pc = "idle"
    /\ \E e1 \in { ComputeOp(est, timer, vol.edge_count, vol.direction_counter) } :
           /\ est' = e1
           /\ hist' = HistAfter(hist, PathOf(est, timer, vol.edge_count), e1)
           /\ last' = CallRecord(est, e1, timer, vol.edge_count,
                                 vol.direction_counter)
    /\ budget' = [budget EXCEPT !.calls = @ + 1]
    /\ UNCHANGED <<timer, intMaster, irqEnabled, init_pc, gs_pc, vol, loc, idle_q>>

\* The call step by step, as the main loop runs it: the timer read, the
\* masked copies, the computation.  An edge interrupt may run between any
\* two steps that PRIMASK does not cover.
\* Line 306: current_time = TimerValueGet().
GS_ReadTimer ==
    /\ init_pc = "done" /\ gs_pc = "idle"
    /\ loc' = [loc EXCEPT !.current_time = timer]
    /\ gs_pc' = "timed"
    /\ budget' = [budget EXCEPT !.calls = @ + 1]
    /\ UNCHANGED <<timer, intMaster, irqEnabled, init_pc, vol, est, last, hist, idle_q>>

\* Faulty variant: the copies taken without masking the interrupts.
MasterLeftEnabled == TRUE

\* Line 309: IntMasterDisable().
MasterAfterDisable == FALSE

\* at_mask notes what the shared counters hold at this instant.
GS_IntMasterDisable ==
    /\ gs_pc = "timed"
    /\ intMaster' = MasterAfterDisable
    /\ loc' = [loc EXCEPT !.at_mask = <<vol.edge_count, vol.direction_counter>>]
    /\ gs_pc' = "masked"
    /\ UNCHANGED <<timer, irqEnabled, init_pc, vol, est, last, hist, idle_q, budget>>

\* Line 310: int_copy = interrupt_count.
GS_CopyInterruptCount ==
    /\ gs_pc = "masked"
    /\ loc' = [loc EXCEPT !.int_copy = vol.interrupt_count]
    /\ gs_pc' = "int_copied"
    /\ UNCHANGED <<timer, intMaster, irqEnabled, init_pc, vol, est, last, hist,
                   idle_q, budget>>

\* Line 311: edge_copy = edge_count.
GS_CopyEdgeCount ==
    /\ gs_pc = "int_copied"
    /\ loc' = [loc EXCEPT !.edge_copy = vol.edge_count]
    /\ gs_pc' = "edge_copied"
    /\ UNCHANGED <<timer, intMaster, irqEnabled, init_pc, vol, est, last, hist,
                   idle_q, budget>>

\* Line 312: dir_copy = direction_counter.
GS_CopyDirection ==
    /\ gs_pc = "edge_copied"
    /\ loc' = [loc EXCEPT !.dir_copy = vol.direction_counter]
    /\ gs_pc' = "dir_copied"
    /\ UNCHANGED <<timer, intMaster, irqEnabled, init_pc, vol, est, last, hist,
                   idle_q, budget>>

\* Line 313: IntMasterEnable().
GS_IntMasterEnable ==
    /\ gs_pc = "dir_copied"
    /\ intMaster' = TRUE
    /\ gs_pc' = "snapped"
    /\ UNCHANGED <<timer, irqEnabled, init_pc, vol, est, loc, last, hist, idle_q, budget>>

\* What the computation of lines 336-454 reads for the edge count and the
\* direction vote: the copies.
EdgeCountUsed == loc.edge_copy

DirectionUsed == loc.dir_copy

\* Lines 336-454: the computation and the return of current_speed_kmh.
GS_Compute ==
    /\ gs_pc = "snapped"
    /\ \E e1 \in { ComputeOp(est, loc.current_time, EdgeCountUsed, DirectionUsed) } :
           /\ est' = e1
           /\ hist' = HistAfter(hist, PathOf(est, loc.current_time, EdgeCountUsed), e1)
           /\ last' = CallRecord(est, e1, loc.current_time, EdgeCountUsed,
                                 DirectionUsed)
    /\ gs_pc' = "idle"
    /\ UNCHANGED <<timer, intMaster, irqEnabled, init_pc, vol, loc, idle_q, budget>>

(***************************************************************************)
(* Sensor_ResetDistance, lines 469-473, called from the main loop          *)
(* (main.c line 156).                                                      *)
(***************************************************************************)
\* Faulty variant: the reset also clears the speed filter.
ResetClearsFilter(e) ==
    [e EXCEPT !.accumulated_distance = 0,
              !.speed_buffer = ZeroBuffer(SPEED_FILTER_SIZE),
              !.speed_filter_index = 0,
              !.speed_filter_count = 0]

ResetDistanceOp(e) == [e EXCEPT !.accumulated_distance = 0]

Sensor_ResetDistance ==
    /\ MainIdle
    /\ est' = ResetDistanceOp(est)
    /\ last' = [ NoOp EXCEPT !.op = "Sensor_ResetDistance", !.est = est, !.vol = vol ]
    /\ budget' = [budget EXCEPT !.resets = @ + 1]
    /\ UNCHANGED <<timer, intMaster, irqEnabled, init_pc, gs_pc, vol, loc, hist,
                   idle_q>>

(***************************************************************************)
(* The reset button, main.c.  GPIOPortJIntHandler (lines 64-72) runs at    *)
(* any point where interrupts are taken and only sets buttonPressed; the   *)
(* main loop (lines 152-156) clears the flag and calls                     *)
(* Sensor_ResetDistance between two calls of Sensor_GetSpeed.              *)
(***************************************************************************)
\* Faulty variant: the handler calls Sensor_ResetDistance itself.
HandlerResetsItself == TRUE

\* Lines 64-72: the handler does not call Sensor_ResetDistance.
HandlerResets == FALSE

GPIOPortJIntHandler ==
    /\ init_pc = "done"
    /\ intMaster
    /\ IF HandlerResets
       THEN /\ est' = ResetDistanceOp(est)
            /\ loc' = [loc EXCEPT !.since_reset = 0, !.pressed_at = gs_pc]
       ELSE /\ est' = est
            /\ loc' = [loc EXCEPT !.buttonPressed = 1, !.pressed_at = gs_pc]
    /\ budget' = [budget EXCEPT !.resets = @ + 1]
    /\ UNCHANGED <<timer, intMaster, irqEnabled, init_pc, gs_pc, vol, last, hist,
                   idle_q>>

\* main.c lines 152-156: if (buttonPressed) { buttonPressed = 0;
\* Sensor_ResetDistance(); }
Main_ButtonReset ==
    /\ MainIdle /\ init_pc = "done"
    /\ loc.buttonPressed = 1
    /\ est' = ResetDistanceOp(est)
    /\ loc' = [loc EXCEPT !.buttonPressed = 0, !.since_reset = 0]
    /\ last' = [ NoOp EXCEPT !.op = "Sensor_ResetDistance", !.est = est, !.vol = vol ]
    /\ UNCHANGED <<timer, intMaster, irqEnabled, init_pc, gs_pc, vol, hist, idle_q,
                   budget>>

\* Sensor_GetSpeed from the copies on, with line 426,
\* accumulated_distance += rotations * WHEEL_CIRCUMFERENCE, as the read and
\* the write it is.
\* Line 426, the read.
GS_LoadDistance ==
    /\ gs_pc = "snapped"
    /\ loc' = [loc EXCEPT !.dist_load = est.accumulated_distance]
    /\ gs_pc' = "loaded"
    /\ UNCHANGED <<timer, intMaster, irqEnabled, init_pc, vol, est, last, hist,
                   idle_q, budget>>

\* Lines 336-454 with the write of line 426: the sum of the value read and
\* the increment.
GS_StoreDistance ==
    /\ gs_pc = "loaded"
    /\ \E path \in { PathOf(est, loc.current_time, EdgeCountUsed) } :
       \E e1 \in { ComputeOp(est, loc.current_time, EdgeCountUsed, DirectionUsed) } :
       \E increment \in { IF path = "success"
                          THEN DistanceOf(EdgesDelta(est, EdgeCountUsed)) ELSE 0 } :
           /\ est' = IF path = "success"
                     THEN [e1 EXCEPT !.accumulated_distance = loc.dist_load + increment]
                     ELSE e1
           /\ loc' = [loc EXCEPT !.since_reset = @ + increment]
           /\ hist' = HistAfter(hist, path, e1)
           /\ last' = CallRecord(est, e1, loc.current_time, EdgeCountUsed,
                                 DirectionUsed)
    /\ gs_pc' = "idle"
    /\ UNCHANGED <<timer, intMaster, irqEnabled, init_pc, vol, idle_q, budget>>

(***************************************************************************)
(* A getter called before Sensor_Init, lines 457-467 and 487-491: there is *)
(* no initialisation flag, the call returns the stored value.  (After      *)
(* Sensor_Init a getter is the read of the state written above.)           *)
(***************************************************************************)
GetterNames == {"Sensor_GetDirection", "Sensor_GetDistance", "Sensor_GetRPM"}

GetterValue(g) ==
    CASE g = "Sensor_GetDirection" -> Sensor_GetDirection
      [] g = "Sensor_GetDistance"  -> Sensor_GetDistance
      [] g = "Sensor_GetRPM"       -> Sensor_GetRPM

GetterBeforeInit(g) ==
    /\ init_pc = "none" /\ gs_pc = "idle"
    /\ last' = [ NoOp EXCEPT !.op = g, !.path = "returned", !.ret = GetterValue(g) ]
    /\ UNCHANGED <<timer, intMaster, irqEnabled, init_pc, gs_pc, vol, est, loc, hist,
                   idle_q, budget>>

(***************************************************************************)
(* Specifications.                                                         *)
(***************************************************************************)
\* Spec: the calls of the main loop and the edge interrupts, each run to
\* completion.
Next ==
    \/ Sensor_Init
    \/ budget.ticks < MaxTicks /\ \E d \in TickMenu : Tick(d)
    \/ budget.edges < MaxEdgeEvents /\ init_pc = "done" /\ GPIOP0_IRQHandler
    \/ budget.edges < MaxEdgeEvents /\ init_pc = "done" /\ GPIOP1_IRQHandler
    \/ budget.edges < MaxEdgeEvents
         /\ \E forward \in BOOLEAN : Rotation(SlowBurst, forward)
    \/ budget.calls < MaxCalls /\ Sensor_GetSpeed
    \/ budget.resets < MaxResets /\ Sensor_ResetDistance
    \/ \E g \in GetterNames : GetterBeforeInit(g)

Spec == Init /\ [][Next]_vars

\* SpecPreempt: Sensor_Init and Sensor_GetSpeed step by step, with the edge
\* interrupts between the steps.
NextPreempt ==
    \/ Init_Enable
    \/ Init_ReadState
    \/ Init_ReadTime
    \/ Init_ZeroDirection
    \/ Init_ZeroEdgeCount
    \/ Init_ZeroInterruptCount
    \/ Init_Finish
    \/ budget.ticks < PreemptTicks /\ \E d \in PreemptTickMenu : Tick(d)
    \/ budget.edges < PreemptEdgeEvents /\ GPIOP0_IRQHandler
    \/ budget.edges < PreemptEdgeEvents /\ GPIOP1_IRQHandler
    \/ budget.calls < PreemptCalls /\ GS_ReadTimer
    \/ GS_IntMasterDisable
    \/ GS_CopyInterruptCount
    \/ GS_CopyEdgeCount
    \/ GS_CopyDirection
    \/ GS_IntMasterEnable
    \/ GS_Compute

SpecPreempt == Init /\ [][NextPreempt]_vars

\* SpecBurst: rotations fast enough to reach the sanity limits.
NextBurst ==
    \/ Sensor_Init
    \/ budget.ticks < BurstTicks /\ Tick(Q(MIN_UPDATE_INTERVAL))
    \/ budget.edges < BurstEdgeEvents
         /\ \E n \in {MidBurst, FastBurst}, forward \in BOOLEAN : Rotation(n, forward)
    \/ budget.calls < BurstCalls /\ Sensor_GetSpeed

SpecBurst == Init /\ [][NextBurst]_vars

\* SpecEdge: the edge handlers alone, single edges of every kind and
\* rotations long enough to reach the clamp of the direction vote.
NextEdge ==
    \/ Sensor_Init
    \/ budget.ticks < EdgeTicks /\ \E d \in EdgeTickMenu : Tick(d)
    \/ budget.edges < EdgeEvents /\ init_pc = "done" /\ GPIOP0_IRQHandler
    \/ budget.edges < EdgeEvents /\ init_pc = "done" /\ GPIOP1_IRQHandler
    \/ budget.edges < EdgeEvents
         /\ \E forward \in BOOLEAN : Rotation(ClampBurst, forward)

SpecEdge == Init /\ [][NextEdge]_vars

\* A run of n handler calls that read the pins as last_state (line 150
\* false): each only counts the interrupt (line 181), and each takes time,
\* during which the interrupted thread does not advance.
GlitchRunOp(v, n) == [ v EXCEPT !.interrupt_count = v.interrupt_count + n ]

GlitchRun ==
    /\ InterruptsTaken
    /\ gs_pc = "idle"
    /\ vol' = GlitchRunOp(vol, GlitchRunLength)
    /\ timer' = TimerAfter(timer, GlitchRunLength * HandlerQuanta)
    /\ idle_q' = IdleAfter(idle_q, GlitchRunLength * HandlerQuanta)
    /\ last' = [ NoOp EXCEPT !.op = "GlitchRun" ]
    /\ budget' = [budget EXCEPT !.ticks = @ + 1]
    /\ UNCHANGED <<intMaster, irqEnabled, init_pc, gs_pc, est, loc, hist>>

\* SpecStartup: Sensor_Init statement by statement with the edge interrupts
\* enabled from line 240 on while main has interrupts enabled (main.c 134).
NextStartup ==
    \/ Init_Enable
    \/ Init_ReadState
    \/ Init_ReadTime
    \/ Init_ZeroDirection
    \/ Init_ZeroEdgeCount
    \/ Init_ZeroInterruptCount
    \/ Init_Finish
    \/ budget.ticks < StartupRuns /\ GlitchRun
    \/ budget.edges < StartupEdgeEvents /\ GPIOP0_IRQHandler
    \/ budget.edges < StartupEdgeEvents /\ GPIOP1_IRQHandler

SpecStartup == Init /\ [][NextStartup]_vars

\* Standstills: a tenth of a second, STOPPED_TIMEOUT, and one period of
\* the 32-bit timer (2^32 ticks, 35.8 s at 120 MHz) plus a tenth of a second.
StandstillMenu ==
    { Q(MIN_UPDATE_INTERVAL), Q(STOPPED_TIMEOUT),
      TIMER_MAX + 1 + Q(MIN_UPDATE_INTERVAL) }

\* The pins rest for d, with no interrupt, and then change: the handler
\* runs with a state different from last_state.  Every such run moves the
\* reference (lines 177-178), so d is the time since the reference.
TransitionAfter(d, current_state) ==
    /\ init_pc = "done" /\ gs_pc = "idle"
    /\ InterruptsTaken
    /\ current_state # vol.last_state
    /\ \E t \in { TimerAfter(timer, d) } :
           /\ timer' = t
           /\ vol' = HandleEdgeOp(vol, t, current_state)
           /\ idle_q' = IF EdgeAccepted(vol, t, current_state)
                        THEN 0 ELSE IdleAfter(idle_q, d)
           /\ last' = [ EdgeRecord(vol, t, current_state) EXCEPT !.idle_q = d ]
    /\ budget' = [budget EXCEPT !.edges = @ + 1]
    /\ UNCHANGED <<intMaster, irqEnabled, init_pc, gs_pc, est, loc, hist>>

\* SpecStandstill: transitions after standstills, also longer than the
\* period of the timer.
NextStandstill ==
    \/ Sensor_Init
    \/ budget.edges < StandstillEvents
         /\ \E d \in StandstillMenu, s \in 0 .. 3 : TransitionAfter(d, s)

SpecStandstill == Init /\ [][NextStandstill]_vars

\* SpecWindow: two calls of Sensor_GetSpeed step by step, with edges before,
\* inside and between them, and time enough for a stall.
NextWindow ==
    \/ Sensor_Init
    \/ budget.ticks < WindowTicks /\ \E d \in TickMenu : Tick(d)
    \/ budget.edges < WindowEdgeEvents /\ init_pc = "done" /\ GPIOP0_IRQHandler
    \/ budget.edges < WindowEdgeEvents /\ init_pc = "done" /\ GPIOP1_IRQHandler
    \/ budget.calls < WindowCalls /\ GS_ReadTimer
    \/ GS_IntMasterDisable
    \/ GS_CopyInterruptCount
    \/ GS_CopyEdgeCount
    \/ GS_CopyDirection
    \/ GS_IntMasterEnable
    \/ GS_Compute

SpecWindow == Init /\ [][NextWindow]_vars

\* SpecReset: the reset button against Sensor_GetSpeed step by step.
NextReset ==
    \/ Sensor_Init
    \/ budget.ticks < ResetTicks /\ Tick(Q(MIN_UPDATE_INTERVAL))
    \/ budget.edges < ResetEdgeEvents /\ init_pc = "done" /\ GPIOP0_IRQHandler
    \/ budget.edges < ResetEdgeEvents /\ init_pc = "done" /\ GPIOP1_IRQHandler
    \/ budget.resets < ResetPresses /\ GPIOPortJIntHandler
    \/ Main_ButtonReset
    \/ budget.calls < ResetCalls /\ GS_ReadTimer
    \/ GS_IntMasterDisable
    \/ GS_CopyInterruptCount
    \/ GS_CopyEdgeCount
    \/ GS_CopyDirection
    \/ GS_IntMasterEnable
    \/ GS_LoadDistance
    \/ GS_StoreDistance

SpecReset == Init /\ [][NextReset]_vars

\* SpecNested: the edge handlers statement by statement, against each other
\* and against the copies of Sensor_GetSpeed.
NextNested ==
    \/ Sensor_Init
    \/ budget.ticks < NestedTicks /\ ThreadRuns
         /\ \E d \in PreemptTickMenu : Tick(d)
    \/ budget.edges < NestedEdgeEvents /\ HE_Enter("GPIOP0_IRQHandler")
    \/ budget.edges < NestedEdgeEvents /\ HE_Enter("GPIOP1_IRQHandler")
    \/ HE_ReadTimer
    \/ HE_ReadPins
    \/ HE_Decode
    \/ HE_TestState
    \/ HE_Period
    \/ HE_TestPeriod
    \/ HE_CountEdge
    \/ HE_Vote
    \/ HE_StoreTime
    \/ HE_StoreState
    \/ HE_CountInterrupt
    \/ HE_Return
    \/ budget.calls < NestedCalls /\ ThreadRuns /\ GS_ReadTimer
    \/ ThreadRuns /\ GS_IntMasterDisable
    \/ ThreadRuns /\ GS_CopyInterruptCount
    \/ ThreadRuns /\ GS_CopyEdgeCount
    \/ ThreadRuns /\ GS_CopyDirection
    \/ ThreadRuns /\ GS_IntMasterEnable
    \/ ThreadRuns /\ GS_Compute

SpecNested == Init /\ [][NextNested]_vars

(***************************************************************************)
(* The edge handlers and the estimator around the wrap of the timer: the   *)
(* timer runs down from TIMER_MAX to WrapOffset, and from there a short    *)
(* step or a measurement interval carries it through 0.                    *)
(***************************************************************************)
ElapsedTickMenu ==
    { TIMER_MAX - WrapOffset, 2 * WrapOffset + 1, Q(MIN_UPDATE_INTERVAL) }

NextElapsed ==
    \/ Sensor_Init
    \/ budget.ticks < ElapsedTicks /\ \E d \in ElapsedTickMenu : Tick(d)
    \/ budget.edges < ElapsedEdgeEvents /\ init_pc = "done" /\ GPIOP0_IRQHandler
    \/ budget.edges < ElapsedEdgeEvents /\ init_pc = "done" /\ GPIOP1_IRQHandler
    \/ budget.calls < ElapsedCalls /\ Sensor_GetSpeed

SpecElapsed == Init /\ [][NextElapsed]_vars

(***************************************************************************)
(* Properties.  They are stated on the record of the operation that ran    *)
(* last (what it found, what it was given) and on the state it left.       *)
(***************************************************************************)
\* Ticks elapsed on the down counter between two reads, modulo its period.
Elapsed(from, to) == (from - to + TIMER_MAX + 1) % (TIMER_MAX + 1)

\* The call of Sensor_GetSpeed that ran last: its window and its cases.
CallEdgesDelta == last.edge_copy - last.est.last_display_edge_count

CallElapsed == Elapsed(last.est.last_display_time, last.current_time)

CallRan == last.op = "Sensor_GetSpeed"

SuccessfulCycle ==
    CallRan /\ CallElapsed >= Q(MIN_UPDATE_INTERVAL) /\ CallEdgesDelta > 0

StalledWindow ==
    CallRan /\ CallElapsed > Q(STOPPED_TIMEOUT) /\ CallEdgesDelta = 0

\* The formulas of the documentation in the units of the model:
\* (edges_delta / 4) / (elapsed / F) * 60 in 1/1000 rpm and
\* (edges_delta / 4) * C / (elapsed / F) * 3.6 in metres per hour.
ClaimedRpm(edges_delta, elapsed) ==
    MulDiv(edges_delta * 15000, Q(TIMER_FREQ), elapsed)

ClaimedKmh(edges_delta, elapsed) ==
    MulDiv(edges_delta * 9, WHEEL_CIRCUMFERENCE_UM * (Q(TIMER_FREQ) \div 10000),
           elapsed)

\* The sample the call stored in each buffer: the slot at the index it found.
PushedSpeed == est.speed_buffer[last.est.speed_filter_index]

PushedRpm == est.rpm_buffer[last.est.rpm_filter_index]

StoppedOutputs ==
    /\ last.ret = 0
    /\ Sensor_GetRPM = 0
    /\ Sensor_GetDirection = DIR_STOPPED
    /\ est.speed_filter_count = 0
    /\ est.rpm_filter_count = 0

\* C1, as stated: whenever no edge has been accepted for more than
\* STOPPED_TIMEOUT ticks, a call of Sensor_GetSpeed returns 0 and leaves
\* RPM 0, direction DIR_STOPPED and both fill counts 0.
C1_StallSinceLastEdge ==
    (CallRan /\ last.idle_q > Q(STOPPED_TIMEOUT)) => StoppedOutputs

\* C1, amended: a call of Sensor_GetSpeed that finds more than
\* STOPPED_TIMEOUT ticks elapsed since the start of its window and no new
\* accepted edge in its snapshot returns 0 and leaves RPM 0, direction
\* DIR_STOPPED and both fill counts 0.
C1_StallOfWindow == StalledWindow => StoppedOutputs

C1_Witness ==
    /\ StalledWindow
    /\ last.est.current_speed_kmh > 0
    /\ last.est.current_rpm > 0
    /\ last.est.current_direction = DIR_FORWARD

\* C2: in every interleaving of the edge handlers with Sensor_GetSpeed, no
\* handler runs while the copies are taken, the copied edge_count and
\* direction_counter are the values the variables held together when the
\* interrupts were masked, and the computation that follows reads the
\* copies only.
C2_SnapshotNotTorn ==
    /\ gs_pc \in {"masked", "int_copied", "edge_copied", "dir_copied"}
         => loc.at_mask = <<vol.edge_count, vol.direction_counter>>
    /\ gs_pc \in {"dir_copied", "snapped"}
         => <<loc.edge_copy, loc.dir_copy>> = loc.at_mask
    /\ (CallRan /\ gs_pc = "idle")
         => /\ last.edge_copy = loc.edge_copy
            /\ last.dir_copy = loc.dir_copy
            /\ last.current_time = loc.current_time
            /\ (SuccessfulCycle \/ StalledWindow)
                 => est.last_display_edge_count = loc.edge_copy

C2_Witness ==
    /\ SuccessfulCycle
    /\ gs_pc = "idle"
    /\ vol.edge_count > loc.edge_copy
    /\ vol.direction_counter # loc.dir_copy

\* C3: a successful cycle (elapsed >= MIN_UPDATE_INTERVAL, edges_delta > 0)
\* computes rpm = (edges_delta/4)/(elapsed/F)*60 and
\* speed_kmh = (edges_delta/4)*C/(elapsed/F)*3.6 from the snapshot (the
\* samples it stores, both below the sanity limits here), adds exactly
\* (edges_delta/4)*C to the distance and moves the window to the snapshot
\* edge count and the time read at the start of the call.
C3_SuccessfulCycle ==
    SuccessfulCycle =>
        /\ ClaimedRpm(CallEdgesDelta, CallElapsed) <= RPM_LIMIT * 1000
        /\ ClaimedKmh(CallEdgesDelta, CallElapsed) <= SPEED_LIMIT_KMH * 1000
        /\ PushedRpm = ClaimedRpm(CallEdgesDelta, CallElapsed)
        /\ PushedSpeed = ClaimedKmh(CallEdgesDelta, CallElapsed)
        /\ est.accumulated_distance =
             last.est.accumulated_distance
               + (CallEdgesDelta * WHEEL_CIRCUMFERENCE_UM) \div 4
        /\ est.last_display_edge_count = last.edge_copy
        /\ est.last_display_time = last.current_time
        /\ last.current_time = timer
        /\ last.edge_copy = vol.edge_count

C3_Witness ==
    /\ SuccessfulCycle
    /\ CallEdgesDelta = SlowBurst
    /\ last.est.last_display_edge_count > 0
    /\ last.est.accumulated_distance > 0
    /\ CallElapsed > Q(STOPPED_TIMEOUT)

\* C4: the accumulated distance changes only in a successful cycle, where
\* it grows, and in Sensor_ResetDistance, where it becomes 0; no edge
\* event, no other call and no passing of time changes it.
C4_DistanceMonotonic ==
    [][ est'.accumulated_distance # est.accumulated_distance =>
          \/ /\ last'.op = "Sensor_GetSpeed"
             /\ Elapsed(est.last_display_time, last'.current_time)
                  >= Q(MIN_UPDATE_INTERVAL)
             /\ last'.edge_copy - est.last_display_edge_count > 0
             /\ est'.accumulated_distance > est.accumulated_distance
          \/ /\ last'.op = "Sensor_ResetDistance"
             /\ est'.accumulated_distance = 0 ]_vars

C4_Witness ==
    /\ SuccessfulCycle
    /\ budget.resets > 0
    /\ last.est.accumulated_distance = 0
    /\ est.accumulated_distance > 0
    /\ est.speed_filter_count > 1

\* C5: after Sensor_ResetDistance, Sensor_GetDistance returns 0 whatever
\* the distance was, and RPM, filtered speed, direction, both filter
\* buffers with index and fill count, the window and the EdgeCapture
\* variables are as before the reset.
C5_ResetFrame ==
    last.op = "Sensor_ResetDistance" =>
        /\ Sensor_GetDistance = 0
        /\ est.current_rpm = last.est.current_rpm
        /\ est.current_speed_kmh = last.est.current_speed_kmh
        /\ est.current_direction = last.est.current_direction
        /\ est.speed_buffer = last.est.speed_buffer
        /\ est.speed_filter_index = last.est.speed_filter_index
        /\ est.speed_filter_count = last.est.speed_filter_count
        /\ est.rpm_buffer = last.est.rpm_buffer
        /\ est.rpm_filter_index = last.est.rpm_filter_index
        /\ est.rpm_filter_count = last.est.rpm_filter_count
        /\ est.last_display_edge_count = last.est.last_display_edge_count
        /\ est.last_display_time = last.est.last_display_time
        /\ vol = last.vol

C5_Witness ==
    /\ last.op = "Sensor_ResetDistance"
    /\ last.est.accumulated_distance > 0
    /\ last.est.speed_filter_count > 0
    /\ last.est.current_direction # DIR_STOPPED
    /\ vol.edge_count > 0

\* C6, as stated: a getter called before Sensor_Init is rejected, never
\* answered with a value.
C6_GetterBeforeInitRejected ==
    (last.op \in GetterNames /\ init_pc = "none") => last.path = "rejected"

\* C7, as stated: an accepted edge along the forward sequence
\* 11 -> 01 -> 00 -> 10 -> 11 moves the direction vote by +1 and one along
\* the reverse sequence 11 -> 10 -> 00 -> 01 -> 11 moves it by -1.
ForwardSequence == <<3, 1, 0, 2, 3>>

ReverseSequence == <<3, 2, 0, 1, 3>>

StepOf(sequence, old_state, new_state) ==
    \E i \in 1 .. 4 : sequence[i] = old_state /\ sequence[i + 1] = new_state

C7_QuadratureVotes ==
    (last.op = "HandleEdge" /\ last.path = "accepted")
      => /\ StepOf(ForwardSequence, last.vol.last_state, last.state)
              => vol.direction_counter = last.vol.direction_counter + 1
         /\ StepOf(ReverseSequence, last.vol.last_state, last.state)
              => vol.direction_counter = last.vol.direction_counter - 1

\* C8, as stated: a cycle whose computed speed is above 200 km/h leaves the
\* filtered speed at its previous value and pushes nothing into the speed
\* buffer: contents, write index and fill count are unchanged.
C8_OverLimitNotPushed ==
    (SuccessfulCycle
       /\ ClaimedKmh(CallEdgesDelta, CallElapsed) > SPEED_LIMIT_KMH * 1000)
    => /\ est.current_speed_kmh = last.est.current_speed_kmh
       /\ est.speed_buffer = last.est.speed_buffer
       /\ est.speed_filter_index = last.est.speed_filter_index
       /\ est.speed_filter_count = last.est.speed_filter_count

\* C9, as stated: the filtered speed and the filtered RPM a successful
\* cycle produces are the mean of the most recent min(k, 3) samples pushed
\* since the buffer was last cleared, k the number of those pushes.
RECURSIVE SumOf(_)
SumOf(samples) ==
    IF samples = <<>> THEN 0 ELSE Head(samples) + SumOf(Tail(samples))

RecentMean(samples, size) ==
    LET k == IF Len(samples) < size THEN Len(samples) ELSE size
    IN  SumOf(SubSeq(samples, Len(samples) - k + 1, Len(samples))) \div k

C9_MovingAverage ==
    SuccessfulCycle =>
        /\ est.current_speed_kmh = RecentMean(hist.speed, SPEED_FILTER_SIZE)
        /\ est.current_rpm = RecentMean(hist.rpm, RPM_FILTER_SIZE)

\* C10: in a successful cycle a snapshot vote above +5 gives DIR_FORWARD, a
\* vote below -5 gives DIR_REVERSE, and a vote in [-5, +5] keeps the
\* direction as it was.
C10_Hysteresis ==
    SuccessfulCycle =>
        /\ last.dir_copy > DIRECTION_THRESHOLD
             => est.current_direction = DIR_FORWARD
        /\ last.dir_copy < -DIRECTION_THRESHOLD
             => est.current_direction = DIR_REVERSE
        /\ (last.dir_copy >= -DIRECTION_THRESHOLD
              /\ last.dir_copy <= DIRECTION_THRESHOLD)
             => est.current_direction = last.est.current_direction

C10_Witness ==
    /\ SuccessfulCycle
    /\ last.dir_copy = DIRECTION_THRESHOLD
    /\ last.est.current_direction = DIR_FORWARD
    /\ est.current_direction = DIR_FORWARD

\* C11, as stated: after initialization the direction changes only through
\* the hysteresis rule, in a step whose snapshot vote exceeds the threshold
\* in absolute value; in every other step it keeps its value.
C11_StickyAsStated ==
    [][ (init_pc = "done" /\ est'.current_direction # est.current_direction) =>
          /\ last'.op = "Sensor_GetSpeed"
          /\ \/ /\ last'.dir_copy > DIRECTION_THRESHOLD
                /\ est'.current_direction = DIR_FORWARD
             \/ /\ last'.dir_copy < -DIRECTION_THRESHOLD
                /\ est'.current_direction = DIR_REVERSE ]_vars

\* C11, amended: after initialization the direction changes only in a
\* successful cycle whose snapshot vote exceeds the threshold in absolute
\* value (to the direction of the vote) or in a stall cycle (to
\* DIR_STOPPED); in every other step it keeps its value.
C11_Sticky ==
    [][ (init_pc = "done" /\ est'.current_direction # est.current_direction) =>
          /\ last'.op = "Sensor_GetSpeed"
          /\ \/ /\ Elapsed(est.last_display_time, last'.current_time)
                     >= Q(MIN_UPDATE_INTERVAL)
                /\ last'.edge_copy - est.last_display_edge_count > 0
                /\ \/ /\ last'.dir_copy > DIRECTION_THRESHOLD
                      /\ est'.current_direction = DIR_FORWARD
                   \/ /\ last'.dir_copy < -DIRECTION_THRESHOLD
                      /\ est'.current_direction = DIR_REVERSE
             \/ /\ Elapsed(est.last_display_time, last'.current_time)
                     > Q(STOPPED_TIMEOUT)
                /\ last'.edge_copy = est.last_display_edge_count
                /\ est'.current_direction = DIR_STOPPED ]_vars

C11_Witness ==
    /\ StalledWindow
    /\ last.dir_copy <= DIRECTION_THRESHOLD
    /\ last.dir_copy >= -DIRECTION_THRESHOLD
    /\ last.est.current_direction = DIR_REVERSE
    /\ est.current_direction = DIR_STOPPED

\* The invocation of HandleEdge that ran last.
EdgeRan == last.op = "HandleEdge"

EdgeCounted ==
    \/ vol.edge_count # last.vol.edge_count
    \/ vol.direction_counter # last.vol.direction_counter

StateChanged == last.state # last.vol.last_state

\* Time from the reference last_edge_time to the timer value the handler read.
EdgeElapsed == Elapsed(last.vol.last_edge_time, last.current_time)

\* C12, as stated: HandleEdge counts an edge or moves the vote only if the
\* sampled state differs from last_state and the time since the previous
\* accepted edge is strictly between MIN_PERIOD and STOPPED_TIMEOUT.
C12_SincePreviousAccepted ==
    (EdgeRan /\ EdgeCounted /\ last.vol.edge_count > 0) =>
        /\ StateChanged
        /\ last.idle_q > Q(MIN_PERIOD)
        /\ last.idle_q < Q(STOPPED_TIMEOUT)

\* C12, amended: HandleEdge counts an edge or moves the vote only if the
\* sampled state differs from last_state and the time since the reference
\* last_edge_time (the previous state-changing transition, accepted or
\* rejected) is strictly between MIN_PERIOD and STOPPED_TIMEOUT.
C12_EdgeAcceptance ==
    (EdgeRan /\ EdgeCounted) =>
        /\ StateChanged
        /\ EdgeElapsed > Q(MIN_PERIOD)
        /\ EdgeElapsed < Q(STOPPED_TIMEOUT)

C12_Witness ==
    /\ EdgeRan
    /\ EdgeCounted
    /\ last.vol.edge_count > 0
    /\ last.idle_q > Q(STOPPED_TIMEOUT)
    /\ EdgeElapsed = Q(MIN_UPDATE_INTERVAL)

\* C13: a state-changing transition at most MIN_PERIOD after the reference
\* counts no edge and moves no vote, and sets last_state and last_edge_time
\* to itself, so that the next transition is measured from it.
C13_Debounce ==
    (EdgeRan /\ StateChanged /\ EdgeElapsed <= Q(MIN_PERIOD)) =>
        /\ vol.edge_count = last.vol.edge_count
        /\ vol.direction_counter = last.vol.direction_counter
        /\ vol.last_state = last.state
        /\ vol.last_edge_time = last.current_time

C13_Witness ==
    /\ EdgeRan
    /\ StateChanged
    /\ EdgeElapsed = Q(MIN_PERIOD)
    /\ last.vol.edge_count > 0
    /\ vol.last_edge_time # last.vol.last_edge_time

\* C14: for every pair of states the vote HandleEdge decodes is the entry
\* of the documented table (rows from = 00, 01, 10, 11; columns to = 00, 01,
\* 10, 11), 0 on the diagonal and on 00 <-> 11 and 01 <-> 10, and
\* vote(a, b) = -vote(b, a).
DocumentedTable ==
    <<  <<  0,  1, -1,  0 >>,
        << -1,  0,  0,  1 >>,
        <<  1,  0,  0, -1 >>,
        <<  0, -1,  1,  0 >>  >>

C14_DirectionTable ==
    /\ \A a \in 0 .. 3 : \A b \in 0 .. 3 :
         /\ TableEntry(a, b) = DocumentedTable[a + 1][b + 1]
         /\ TableEntry(a, b) = -TableEntry(b, a)
         /\ (a = b \/ a + b = 3) => TableEntry(a, b) = 0
    /\ (EdgeRan /\ last.path = "accepted"
          /\ last.vol.direction_counter < DIRECTION_CLAMP
          /\ last.vol.direction_counter > -DIRECTION_CLAMP)
         => vol.direction_counter =
              last.vol.direction_counter
                + DocumentedTable[last.vol.last_state + 1][last.state + 1]

C14_Witness ==
    /\ EdgeRan
    /\ last.path = "accepted"
    /\ last.vol.last_state = 3
    /\ last.state = 1
    /\ vol.direction_counter = last.vol.direction_counter - 1

\* C19: an invocation that samples the state already in last_state changes
\* nothing but interrupt_count: edge_count, direction_counter, last_state
\* and last_edge_time keep their values.
C19_GlitchIgnored ==
    (EdgeRan /\ ~StateChanged) =>
        /\ vol.edge_count = last.vol.edge_count
        /\ vol.direction_counter = last.vol.direction_counter
        /\ vol.last_state = last.vol.last_state
        /\ vol.last_edge_time = last.vol.last_edge_time
        /\ vol.interrupt_count = last.vol.interrupt_count + 1

C19_Witness ==
    /\ EdgeRan
    /\ ~StateChanged
    /\ last.vol.edge_count > 0
    /\ EdgeElapsed = Q(MIN_UPDATE_INTERVAL)
    /\ vol.interrupt_count = last.vol.interrupt_count + 1

\* The transitions that change both bits: 00 <-> 11 and 01 <-> 10.
TwoBitChange == StateChanged /\ last.state + last.vol.last_state = 3

\* C20: direction_counter stays in [-100, +100], one invocation of
\* HandleEdge moves it by at most 1, and a transition of valid period that
\* changes both bits leaves it unchanged and still counts an edge.
C20_VoteBounded ==
    /\ vol.direction_counter >= -DIRECTION_CLAMP
    /\ vol.direction_counter <= DIRECTION_CLAMP
    /\ EdgeRan =>
         /\ vol.direction_counter - last.vol.direction_counter <= 1
         /\ last.vol.direction_counter - vol.direction_counter <= 1
    /\ (EdgeRan /\ TwoBitChange
          /\ EdgeElapsed > Q(MIN_PERIOD) /\ EdgeElapsed < Q(STOPPED_TIMEOUT)) =>
         /\ vol.direction_counter = last.vol.direction_counter
         /\ vol.edge_count = last.vol.edge_count + 1

\* A transition of both bits, counted while the vote rests on the clamp that
\* a burst of more than DIRECTION_CLAMP edges drove it into.
C20_Witness ==
    /\ EdgeRan
    /\ TwoBitChange
    /\ last.path = "accepted"
    /\ last.vol.direction_counter \in {DIRECTION_CLAMP, -DIRECTION_CLAMP}
    /\ last.vol.edge_count > DIRECTION_CLAMP
    /\ vol.direction_counter = last.vol.direction_counter
    /\ vol.edge_count = last.vol.edge_count + 1

\* A call that is neither a successful cycle nor a stall.
NoOpCall == CallRan /\ ~SuccessfulCycle /\ ~(CallElapsed > Q(STOPPED_TIMEOUT))

\* C18: a call that is neither a successful cycle nor a stall returns the
\* cached filtered speed and leaves the speed, the rpm, the direction, the
\* distance, both filters and the measurement window as they were; the same
\* call made again changes nothing either.
C18_NoOpFrame ==
    NoOpCall =>
        /\ last.ret = last.est.current_speed_kmh
        /\ est = last.est
        /\ ComputeOp(est, last.current_time, last.edge_copy, last.dir_copy) = est

C18_Witness ==
    /\ NoOpCall
    /\ CallElapsed >= Q(MIN_UPDATE_INTERVAL)
    /\ CallEdgesDelta = 0
    /\ last.est.current_speed_kmh > 0
    /\ last.est.accumulated_distance > 0
    /\ last.ret = last.est.current_speed_kmh

\* Values of the full width on both sides of the wrap and in the middle.
WideSamples ==
    { <<0, 0>>, <<0, 1>>, <<0, 5>>, <<0, 65535>>, <<1, 0>>, <<32768, 0>>,
      <<65535, 0>>, <<65535, 65530>>, <<65535, 65534>>, <<65535, 65535>> }

\* The timer values the state holds.
TimesInState ==
    { timer, vol.last_edge_time, est.last_display_time, last.current_time,
      last.vol.last_edge_time, last.est.last_display_time }

\* C15: the duration that HandleEdge and Sensor_GetSpeed compute from an
\* older and a newer value of the down counter is (older - newer) modulo
\* the range of the counter, with the same result in both for the same
\* inputs, and the handlers act on that duration; at the full width,
\* elapsed(5, 4294967290) = 11.
C15_Elapsed ==
    /\ (EdgeRan /\ StateChanged) =>
         /\ last.elapsed = EdgeElapsed
         /\ vol.edge_count # last.vol.edge_count
              <=> (EdgeElapsed > Q(MIN_PERIOD) /\ EdgeElapsed < Q(STOPPED_TIMEOUT))
    /\ CallRan =>
         /\ last.elapsed = CallElapsed
         /\ (SuccessfulCycle \/ CallElapsed > Q(STOPPED_TIMEOUT))
              => est.last_display_time = last.current_time
         /\ NoOpCall => est = last.est
    /\ \A older \in TimesInState : \A newer \in TimesInState :
         /\ EdgePeriod(older, newer) = Elapsed(older, newer)
         /\ TimeDelta(older, newer) = EdgePeriod(older, newer)
    /\ \A older \in WideSamples : \A newer \in WideSamples :
         /\ WidePeriod(older, newer) = WideSub(older, newer)
         /\ WideTimeDelta(older, newer) = WidePeriod(older, newer)
    /\ WidePeriod(<<0, 5>>, <<65535, 65530>>) = <<0, 11>>

\* A call whose window started WrapOffset quanta above 0 and whose timer
\* read is a measurement interval later, on the other side of the wrap.
C15_Witness ==
    /\ CallRan
    /\ last.est.last_display_time = WrapOffset
    /\ last.current_time = TIMER_MAX + 1 + WrapOffset - Q(MIN_UPDATE_INTERVAL)
    /\ last.elapsed = Q(MIN_UPDATE_INTERVAL)
    /\ SuccessfulCycle
    /\ est.last_display_time = last.current_time

\* An edge 2 * WrapOffset + 1 quanta after a reference WrapOffset above 0.
C15_EdgeAcrossWrap ==
    /\ EdgeRan
    /\ StateChanged
    /\ last.vol.last_edge_time = WrapOffset
    /\ last.current_time = TIMER_MAX - WrapOffset
    /\ last.elapsed = 2 * WrapOffset + 1

\* The copies of Sensor_GetSpeed are being taken.
Snapshotting == gs_pc \in {"masked", "int_copied", "edge_copied", "dir_copied"}

\* C16: at most one edge handler is in progress at any time, so no
\* invocation of HandleEdge interleaves with another and each leaves the
\* shared variables as one indivisible HandleEdge would; and while
\* Sensor_GetSpeed takes its copies no handler is part-way through, so the
\* copies are those of one state between two invocations.
C16_HandlersExclusive ==
    /\ Len(loc.isr) <= 1
    /\ (EdgeRan /\ loc.isr = <<>>) =>
         vol = HandleEdgeOp(last.vol, last.current_time, last.state)
    /\ Snapshotting => loc.isr = <<>>
    /\ gs_pc = "snapped" =>
         /\ loc.edge_copy = loc.at_mask[1]
         /\ loc.dir_copy = loc.at_mask[2]

\* The handler of the second pin starts once a handler that counted an edge
\* has returned, and finds the shared variables as that one left them.
C16_Witness ==
    /\ EdgeRan
    /\ last.path = "accepted"
    /\ Len(loc.isr) = 1
    /\ IsrTop.handler = "GPIOP1_IRQHandler"
    /\ IsrTop.entry = vol
    /\ vol.edge_count = last.vol.edge_count + 1

C21_OutputRange ==
    init_pc = "done" =>
        /\ est.current_speed_kmh >= 0
        /\ est.current_speed_kmh <= SPEED_LIMIT_KMH * 1000
        /\ Sensor_GetRPM >= 0
        /\ Sensor_GetRPM <= RPM_LIMIT * 1000
        /\ CallRan => (last.ret >= 0 /\ last.ret <= SPEED_LIMIT_KMH * 1000)
        /\ \A i \in 0 .. SPEED_FILTER_SIZE - 1 :
             est.speed_buffer[i] >= 0 /\ est.speed_buffer[i] <= SPEED_LIMIT_KMH * 1000
        /\ \A i \in 0 .. RPM_FILTER_SIZE - 1 :
             est.rpm_buffer[i] >= 0 /\ est.rpm_buffer[i] <= RPM_LIMIT * 1000

\* A cycle whose computed RPM is above the limit stores the limit.
C21_Witness ==
    /\ SuccessfulCycle
    /\ ClaimedRpm(CallEdgesDelta, CallElapsed) > RPM_LIMIT * 1000
    /\ PushedRpm = RPM_LIMIT * 1000
    /\ Sensor_GetRPM = RPM_LIMIT * 1000
    /\ last.ret <= SPEED_LIMIT_KMH * 1000

\* A cycle whose computed speed is above the limit returns a speed within it.
C21_OverLimitSpeed ==
    /\ SuccessfulCycle
    /\ ClaimedKmh(CallEdgesDelta, CallElapsed) > SPEED_LIMIT_KMH * 1000
    /\ last.ret <= SPEED_LIMIT_KMH * 1000

\* A step that is one call of Sensor_GetSpeed.
CallStep == last'.op = "Sensor_GetSpeed" /\ budget'.calls = budget.calls + 1

\* C22: a stall cycle moves the window to its own snapshot and time.  Of
\* the calls that follow it with no new accepted edge, one made at most
\* STOPPED_TIMEOUT after the stall cycle changes nothing, and one that takes
\* the stall path again comes more than STOPPED_TIMEOUT after it.
C22_StallNotRepeated ==
    [][ (CallStep /\ hist.window = "stall" /\ vol.edge_count = hist.edges) =>
          /\ est.last_display_time = hist.at
          /\ est.last_display_edge_count = hist.edges
          /\ Elapsed(hist.at, timer) <= Q(STOPPED_TIMEOUT)
               => (last'.path = "noop" /\ est' = est)
          /\ last'.path = "stall"
               => Elapsed(hist.at, timer) > Q(STOPPED_TIMEOUT) ]_vars

\* A call exactly STOPPED_TIMEOUT after a stall cycle that had cleared a
\* nonzero speed: it changes nothing.
C22_Witness ==
    /\ CallRan
    /\ last.path = "noop"
    /\ hist.window = "stall"
    /\ vol.edge_count = hist.edges
    /\ hist.edges > 0
    /\ Elapsed(hist.at, last.current_time) = Q(STOPPED_TIMEOUT)
    /\ est = last.est

\* The stall path taken a second time, with no edge in between.
C22_SecondStall ==
    /\ StalledWindow
    /\ last.est.speed_filter_count = 0
    /\ last.est.last_display_time # TIMER_MAX
    /\ last.est.last_display_edge_count = vol.edge_count
    /\ hist.window = "stall"

\* C23: every accepted edge is counted in exactly one successful cycle.
\* The window never starts beyond edge_count; a stall cycle finds
\* edges_delta = 0; a successful cycle adds the distance of the edges
\* between the previous window start and its snapshot and starts the next
\* window at the snapshot, so that edges accepted after the snapshot remain
\* for the next cycle; without a reset the distance is that of the edges
\* up to the window start; and at the full width of the counter
\* edges_delta is the number of edges counted since the window start also
\* across the wrap of edge_count.
C23_EdgeConservation ==
    /\ init_pc = "done" =>
         /\ est.last_display_edge_count <= vol.edge_count
         /\ est.accumulated_distance =
              (est.last_display_edge_count * WHEEL_CIRCUMFERENCE_UM) \div 4
    /\ gs_pc \in {"edge_copied", "dir_copied", "snapped"} =>
         /\ est.last_display_edge_count <= loc.edge_copy
         /\ loc.edge_copy <= vol.edge_count
    /\ (CallRan /\ last.path = "stall") =>
         /\ CallEdgesDelta = 0
         /\ est.last_display_edge_count = last.est.last_display_edge_count
    /\ (CallRan /\ last.path = "noop") =>
         est.last_display_edge_count = last.est.last_display_edge_count
    /\ (CallRan /\ last.path = "success") =>
         /\ est.last_display_edge_count = last.edge_copy
         /\ est.accumulated_distance - last.est.accumulated_distance =
              (CallEdgesDelta * WHEEL_CIRCUMFERENCE_UM) \div 4
    /\ \A start \in WideSamples : \A n \in 0 .. SlowBurst :
         WideEdgesDelta(WideCounted(start, n), start) = <<0, n>>

\* A successful cycle during which, after its snapshot, one more edge was
\* accepted: the window starts at the snapshot, one edge behind edge_count.
C23_Witness ==
    /\ CallRan
    /\ last.path = "success"
    /\ hist.edges = last.edge_copy + 1
    /\ vol.edge_count = hist.edges
    /\ est.last_display_edge_count = last.edge_copy
    /\ est.accumulated_distance > 0

\* A second successful cycle, one edge in its window.
C23_SecondWindow ==
    /\ CallRan
    /\ last.path = "success"
    /\ last.est.last_display_edge_count = 1
    /\ last.edge_copy = 2
    /\ est.accumulated_distance = 2 * DistanceOf(1)

\* A stall cycle after an edge that an earlier cycle had counted.
C23_StallWithoutEdges ==
    /\ CallRan
    /\ last.path = "stall"
    /\ CallEdgesDelta = 0
    /\ est.last_display_edge_count > 0

\* C24: edge_count <= interrupt_count in every state, also while
\* Sensor_Init is running with the edge interrupts enabled.
C24_CountersOrdered == vol.edge_count <= vol.interrupt_count

\* The same once Sensor_Init has returned.
C24_OrderedAfterInit == init_pc = "done" => vol.edge_count <= vol.interrupt_count

\* An edge counted by a handler that ran between the stores of lines 261
\* and 263.
C24_CountedInsideInit ==
    /\ init_pc = "edge_zeroed"
    /\ EdgeRan /\ EdgeCounted
    /\ vol.edge_count = 1

\* C25: a state-changing transition that comes STOPPED_TIMEOUT or more
\* after the reference is rejected: the first transition after a standstill
\* of STOPPED_TIMEOUT or more counts no edge and moves no vote, and sets
\* last_state and last_edge_time to itself; edges that are all spaced so
\* never increment edge_count.
C25_StandstillRejected ==
    (EdgeRan /\ StateChanged /\ last.idle_q >= Q(STOPPED_TIMEOUT)) =>
        /\ vol.edge_count = last.vol.edge_count
        /\ vol.direction_counter = last.vol.direction_counter
        /\ vol.last_state = last.state
        /\ vol.last_edge_time = last.current_time

\* The same for the period as line 154-159 computes it, modulo 2^32.
C25_LongPeriodRejected ==
    (EdgeRan /\ StateChanged /\ EdgeElapsed >= Q(STOPPED_TIMEOUT)) =>
        /\ vol.edge_count = last.vol.edge_count
        /\ vol.direction_counter = last.vol.direction_counter
        /\ vol.last_state = last.state
        /\ vol.last_edge_time = last.current_time

\* A transition rejected after a standstill of exactly STOPPED_TIMEOUT that
\* followed a counted edge.
C25_RejectedAfterStandstill ==
    /\ EdgeRan /\ StateChanged
    /\ last.idle_q = Q(STOPPED_TIMEOUT)
    /\ EdgeElapsed = Q(STOPPED_TIMEOUT)
    /\ last.vol.edge_count > 0
    /\ vol.edge_count = last.vol.edge_count
    /\ vol.last_edge_time = last.current_time

\* A transition counted after a standstill longer than the timer period.
C25_CountedAfterStandstill ==
    /\ EdgeRan /\ StateChanged
    /\ last.idle_q > TIMER_MAX
    /\ EdgeElapsed = Q(MIN_UPDATE_INTERVAL)
    /\ vol.edge_count = last.vol.edge_count + 1

\* C26: from a stall cycle until the next successful cycle the direction
\* is DIR_STOPPED; it leaves DIR_STOPPED only in a successful cycle whose
\* snapshot vote exceeds the threshold in absolute value, to the direction
\* of that vote; a stall cycle changes none of the variables of the
\* handlers, and every cycle takes as its vote the whole direction_counter,
\* which no cycle resets.
C26_StoppedUntilVote ==
    /\ [] ((init_pc = "done" /\ hist.window = "stall") =>
              est.current_direction = DIR_STOPPED)
    /\ [][ /\ (init_pc = "done" /\ hist.window = "stall"
                 /\ est'.current_direction # DIR_STOPPED) =>
                  /\ CallStep
                  /\ last'.path = "success"
                  /\ \/ /\ last'.dir_copy > DIRECTION_THRESHOLD
                        /\ est'.current_direction = DIR_FORWARD
                     \/ /\ last'.dir_copy < -DIRECTION_THRESHOLD
                        /\ est'.current_direction = DIR_REVERSE
           /\ CallStep =>
                  /\ vol' = vol
                  /\ last'.dir_copy = vol.direction_counter ]_vars

\* The first successful cycle after a stall, with no more edges in its
\* window than the threshold and a vote beyond it: the direction leaves
\* DIR_STOPPED on votes cast before the stall.
C26_Witness ==
    /\ CallRan
    /\ last.path = "success"
    /\ last.est.current_direction = DIR_STOPPED
    /\ last.est.speed_filter_count = 0
    /\ last.est.last_display_edge_count > 0
    /\ CallEdgesDelta <= DIRECTION_THRESHOLD
    /\ last.dir_copy > DIRECTION_THRESHOLD
    /\ vol.direction_counter = last.dir_copy
    /\ est.current_direction = DIR_FORWARD

\* The first successful cycle after a stall with a vote inside the band:
\* the direction stays DIR_STOPPED although edges were counted.
C26_StillStopped ==
    /\ CallRan
    /\ last.path = "success"
    /\ last.est.speed_filter_count = 0
    /\ last.est.last_display_edge_count > 0
    /\ last.dir_copy > 0
    /\ last.dir_copy <= DIRECTION_THRESHOLD
    /\ est.current_direction = DIR_STOPPED

====
